---- MODULE Spec2Model ----
(***************************************************************************)
(* Model of fetch_youtube_latest_mv.py: the MV resolver (filter_mv_items,  *)
(* is_shorts, search_latest_mv), the view-delta state store                *)
(* (calc_view_delta, load_state, save_state) and the run loop of main().   *)
(*                                                                         *)
(* A Python string (a title, a group name, a duration) is modelled as the  *)
(* sequence of its Unicode code points, so that lower(), replace(" ", ""), *)
(* strip(), "in" and endswith() are computed character by character.  An   *)
(* optional value (None or a value) is a sequence of length 0 or 1.        *)
(***************************************************************************)
EXTENDS Integers, Sequences, FiniteSets, TLC

VARIABLES
    pc,             \* position of main(): start, resolve, stats, post_abs, post_delta, save, done, crashed
    env,            \* process environment: the two API keys (optional strings)
    file,           \* content of state.json (optional mapping)
    state,          \* the in-memory state dict of main()
    should_search,  \* main(): current_hour_jst in SEARCH_HOURS_JST
    idx,            \* index in GROUPS of the group the loop is at
    latest,         \* local latest of the current iteration (result of the resolver)
    video_id,       \* local video_id of the current iteration
    title,          \* local title of the current iteration
    stats,          \* local stats of the current iteration
    calls,          \* requests issued to the video catalog, in order
    metrics,        \* data points accepted by the metric sink, in order
    outcome,        \* per group, the last progress message main() printed for it
    error,          \* the uncaught exception that ended the run and the function that raised it
    inp,            \* arguments of the function under test (function-level specifications)
    out             \* its result, or "pending" marker

vars == <<pc, env, file, state, should_search, idx, latest, video_id, title, stats,
          calls, metrics, outcome, error, inp, out>>

----------------------------------------------------------------------------
(* Optional values *)

None == <<>>
Some(x) == <<x>>

----------------------------------------------------------------------------
(* Python str: a sequence of Unicode code points.  Str writes a string of  *)
(* printable ASCII characters character by character.                      *)

\* the characters U+0020..U+007E in code point order (the place of U+0060,
\* which a string literal cannot hold, is left empty)
AsciiChars == <<
    " ","!","\"","#","$","%","&","'","(",")","*","+",",","-",".","/",
    "0","1","2","3","4","5","6","7","8","9",":",";","<","=",">","?",
    "@","A","B","C","D","E","F","G","H","I","J","K","L","M","N","O",
    "P","Q","R","S","T","U","V","W","X","Y","Z","[","\\","]","^","_",
    "","a","b","c","d","e","f","g","h","i","j","k","l","m","n","o",
    "p","q","r","s","t","u","v","w","x","y","z","{","|","}","~" >>

\* ord(c) of a printable ASCII character
Ord(c) == 31 + (CHOOSE i \in 1..Len(AsciiChars) : AsciiChars[i] = c)

Str(s) == [i \in 1..Len(s) |-> Ord(s[i])]

\* c lies in one of the ranges <<first, last>>
InRanges(c, ranges) == \E k \in 1..Len(ranges) : ranges[k][1] <= c /\ c <= ranges[k][2]

\* the simple lowercase mappings of the Unicode character database (14.0),
\* as runs <<first, last, step, offset>>: the code points first, first + step,
\* ..., last map to themselves plus offset
LowerRuns == <<
    <<65,90,1,32>>, <<192,214,1,32>>, <<216,222,1,32>>, <<256,302,2,1>>, <<306,310,2,1>>,
    <<313,327,2,1>>, <<330,374,2,1>>, <<376,376,1,-121>>, <<377,381,2,1>>, <<385,385,1,210>>,
    <<386,388,2,1>>, <<390,390,1,206>>, <<391,391,1,1>>, <<393,394,1,205>>, <<395,395,1,1>>,
    <<398,398,1,79>>, <<399,399,1,202>>, <<400,400,1,203>>, <<401,401,1,1>>, <<403,403,1,205>>,
    <<404,404,1,207>>, <<406,406,1,211>>, <<407,407,1,209>>, <<408,408,1,1>>, <<412,412,1,211>>,
    <<413,413,1,213>>, <<415,415,1,214>>, <<416,420,2,1>>, <<422,422,1,218>>, <<423,423,1,1>>,
    <<425,425,1,218>>, <<428,428,1,1>>, <<430,430,1,218>>, <<431,431,1,1>>, <<433,434,1,217>>,
    <<435,437,2,1>>, <<439,439,1,219>>, <<440,440,1,1>>, <<444,444,1,1>>, <<452,452,1,2>>,
    <<453,453,1,1>>, <<455,455,1,2>>, <<456,456,1,1>>, <<458,458,1,2>>, <<459,475,2,1>>,
    <<478,494,2,1>>, <<497,497,1,2>>, <<498,500,2,1>>, <<502,502,1,-97>>, <<503,503,1,-56>>,
    <<504,542,2,1>>, <<544,544,1,-130>>, <<546,562,2,1>>, <<570,570,1,10795>>, <<571,571,1,1>>,
    <<573,573,1,-163>>, <<574,574,1,10792>>, <<577,577,1,1>>, <<579,579,1,-195>>, <<580,580,1,69>>,
    <<581,581,1,71>>, <<582,590,2,1>>, <<880,882,2,1>>, <<886,886,1,1>>, <<895,895,1,116>>,
    <<902,902,1,38>>, <<904,906,1,37>>, <<908,908,1,64>>, <<910,911,1,63>>, <<913,929,1,32>>,
    <<932,939,1,32>>, <<975,975,1,8>>, <<984,1006,2,1>>, <<1012,1012,1,-60>>, <<1015,1015,1,1>>,
    <<1017,1017,1,-7>>, <<1018,1018,1,1>>, <<1021,1023,1,-130>>, <<1024,1039,1,80>>, <<1040,1071,1,32>>,
    <<1120,1152,2,1>>, <<1162,1214,2,1>>, <<1216,1216,1,15>>, <<1217,1229,2,1>>, <<1232,1326,2,1>>,
    <<1329,1366,1,48>>, <<4256,4293,1,7264>>, <<4295,4295,1,7264>>, <<4301,4301,1,7264>>, <<5024,5103,1,38864>>,
    <<5104,5109,1,8>>, <<7312,7354,1,-3008>>, <<7357,7359,1,-3008>>, <<7680,7828,2,1>>, <<7838,7838,1,-7615>>,
    <<7840,7934,2,1>>, <<7944,7951,1,-8>>, <<7960,7965,1,-8>>, <<7976,7983,1,-8>>, <<7992,7999,1,-8>>,
    <<8008,8013,1,-8>>, <<8025,8031,2,-8>>, <<8040,8047,1,-8>>, <<8072,8079,1,-8>>, <<8088,8095,1,-8>>,
    <<8104,8111,1,-8>>, <<8120,8121,1,-8>>, <<8122,8123,1,-74>>, <<8124,8124,1,-9>>, <<8136,8139,1,-86>>,
    <<8140,8140,1,-9>>, <<8152,8153,1,-8>>, <<8154,8155,1,-100>>, <<8168,8169,1,-8>>, <<8170,8171,1,-112>>,
    <<8172,8172,1,-7>>, <<8184,8185,1,-128>>, <<8186,8187,1,-126>>, <<8188,8188,1,-9>>, <<8486,8486,1,-7517>>,
    <<8490,8490,1,-8383>>, <<8491,8491,1,-8262>>, <<8498,8498,1,28>>, <<8544,8559,1,16>>, <<8579,8579,1,1>>,
    <<9398,9423,1,26>>, <<11264,11311,1,48>>, <<11360,11360,1,1>>, <<11362,11362,1,-10743>>, <<11363,11363,1,-3814>>,
    <<11364,11364,1,-10727>>, <<11367,11371,2,1>>, <<11373,11373,1,-10780>>, <<11374,11374,1,-10749>>, <<11375,11375,1,-10783>>,
    <<11376,11376,1,-10782>>, <<11378,11378,1,1>>, <<11381,11381,1,1>>, <<11390,11391,1,-10815>>, <<11392,11490,2,1>>,
    <<11499,11501,2,1>>, <<11506,11506,1,1>>, <<42560,42604,2,1>>, <<42624,42650,2,1>>, <<42786,42798,2,1>>,
    <<42802,42862,2,1>>, <<42873,42875,2,1>>, <<42877,42877,1,-35332>>, <<42878,42886,2,1>>, <<42891,42891,1,1>>,
    <<42893,42893,1,-42280>>, <<42896,42898,2,1>>, <<42902,42920,2,1>>, <<42922,42922,1,-42308>>, <<42923,42923,1,-42319>>,
    <<42924,42924,1,-42315>>, <<42925,42925,1,-42305>>, <<42926,42926,1,-42308>>, <<42928,42928,1,-42258>>, <<42929,42929,1,-42282>>,
    <<42930,42930,1,-42261>>, <<42931,42931,1,928>>, <<42932,42946,2,1>>, <<42948,42948,1,-48>>, <<42949,42949,1,-42307>>,
    <<42950,42950,1,-35384>>, <<42951,42953,2,1>>, <<42960,42960,1,1>>, <<42966,42968,2,1>>, <<42997,42997,1,1>>,
    <<65313,65338,1,32>>, <<66560,66599,1,40>>, <<66736,66771,1,40>>, <<66928,66964,2,39>>, <<66929,66937,2,39>>,
    <<66941,66953,2,39>>, <<66957,66961,2,39>>, <<66965,66965,1,39>>, <<68736,68786,1,64>>, <<71840,71871,1,32>>,
    <<93760,93791,1,32>>, <<125184,125217,1,34>> >>

\* the code points with the property Cased
CasedRanges == <<
    <<65,90>>, <<97,122>>, <<170,170>>, <<181,181>>, <<186,186>>, <<192,214>>,
    <<216,246>>, <<248,442>>, <<444,447>>, <<452,659>>, <<661,696>>, <<704,705>>,
    <<736,740>>, <<837,837>>, <<880,883>>, <<886,887>>, <<890,893>>, <<895,895>>,
    <<902,902>>, <<904,906>>, <<908,908>>, <<910,929>>, <<931,1013>>, <<1015,1153>>,
    <<1162,1327>>, <<1329,1366>>, <<1376,1416>>, <<4256,4293>>, <<4295,4295>>, <<4301,4301>>,
    <<4304,4346>>, <<4349,4351>>, <<5024,5109>>, <<5112,5117>>, <<7296,7304>>, <<7312,7354>>,
    <<7357,7359>>, <<7424,7615>>, <<7680,7957>>, <<7960,7965>>, <<7968,8005>>, <<8008,8013>>,
    <<8016,8023>>, <<8025,8025>>, <<8027,8027>>, <<8029,8029>>, <<8031,8061>>, <<8064,8116>>,
    <<8118,8124>>, <<8126,8126>>, <<8130,8132>>, <<8134,8140>>, <<8144,8147>>, <<8150,8155>>,
    <<8160,8172>>, <<8178,8180>>, <<8182,8188>>, <<8305,8305>>, <<8319,8319>>, <<8336,8348>>,
    <<8450,8450>>, <<8455,8455>>, <<8458,8467>>, <<8469,8469>>, <<8473,8477>>, <<8484,8484>>,
    <<8486,8486>>, <<8488,8488>>, <<8490,8493>>, <<8495,8500>>, <<8505,8505>>, <<8508,8511>>,
    <<8517,8521>>, <<8526,8526>>, <<8544,8575>>, <<8579,8580>>, <<9398,9449>>, <<11264,11492>>,
    <<11499,11502>>, <<11506,11507>>, <<11520,11557>>, <<11559,11559>>, <<11565,11565>>, <<42560,42605>>,
    <<42624,42653>>, <<42786,42887>>, <<42891,42894>>, <<42896,42954>>, <<42960,42961>>, <<42963,42963>>,
    <<42965,42969>>, <<42997,42998>>, <<43000,43002>>, <<43824,43866>>, <<43868,43880>>, <<43888,43967>>,
    <<64256,64262>>, <<64275,64279>>, <<65313,65338>>, <<65345,65370>>, <<66560,66639>>, <<66736,66771>>,
    <<66776,66811>>, <<66928,66938>>, <<66940,66954>>, <<66956,66962>>, <<66964,66965>>, <<66967,66977>>,
    <<66979,66993>>, <<66995,67001>>, <<67003,67004>>, <<67456,67456>>, <<67459,67461>>, <<67463,67504>>,
    <<67506,67514>>, <<68736,68786>>, <<68800,68850>>, <<71840,71903>>, <<93760,93823>>, <<119808,119892>>,
    <<119894,119964>>, <<119966,119967>>, <<119970,119970>>, <<119973,119974>>, <<119977,119980>>, <<119982,119993>>,
    <<119995,119995>>, <<119997,120003>>, <<120005,120069>>, <<120071,120074>>, <<120077,120084>>, <<120086,120092>>,
    <<120094,120121>>, <<120123,120126>>, <<120128,120132>>, <<120134,120134>>, <<120138,120144>>, <<120146,120485>>,
    <<120488,120512>>, <<120514,120538>>, <<120540,120570>>, <<120572,120596>>, <<120598,120628>>, <<120630,120654>>,
    <<120656,120686>>, <<120688,120712>>, <<120714,120744>>, <<120746,120770>>, <<120772,120779>>, <<122624,122633>>,
    <<122635,122654>>, <<125184,125251>>, <<127280,127305>>, <<127312,127337>>, <<127344,127369>> >>

\* the code points with the property Case_Ignorable
CaseIgnorableRanges == <<
    <<39,39>>, <<46,46>>, <<58,58>>, <<94,94>>, <<96,96>>, <<168,168>>,
    <<173,173>>, <<175,175>>, <<180,180>>, <<183,184>>, <<688,879>>, <<884,885>>,
    <<890,890>>, <<900,901>>, <<903,903>>, <<1155,1161>>, <<1369,1369>>, <<1375,1375>>,
    <<1425,1469>>, <<1471,1471>>, <<1473,1474>>, <<1476,1477>>, <<1479,1479>>, <<1524,1524>>,
    <<1536,1541>>, <<1552,1562>>, <<1564,1564>>, <<1600,1600>>, <<1611,1631>>, <<1648,1648>>,
    <<1750,1757>>, <<1759,1768>>, <<1770,1773>>, <<1807,1807>>, <<1809,1809>>, <<1840,1866>>,
    <<1958,1968>>, <<2027,2037>>, <<2042,2042>>, <<2045,2045>>, <<2070,2093>>, <<2137,2139>>,
    <<2184,2184>>, <<2192,2193>>, <<2200,2207>>, <<2249,2306>>, <<2362,2362>>, <<2364,2364>>,
    <<2369,2376>>, <<2381,2381>>, <<2385,2391>>, <<2402,2403>>, <<2417,2417>>, <<2433,2433>>,
    <<2492,2492>>, <<2497,2500>>, <<2509,2509>>, <<2530,2531>>, <<2558,2558>>, <<2561,2562>>,
    <<2620,2620>>, <<2625,2626>>, <<2631,2632>>, <<2635,2637>>, <<2641,2641>>, <<2672,2673>>,
    <<2677,2677>>, <<2689,2690>>, <<2748,2748>>, <<2753,2757>>, <<2759,2760>>, <<2765,2765>>,
    <<2786,2787>>, <<2810,2815>>, <<2817,2817>>, <<2876,2876>>, <<2879,2879>>, <<2881,2884>>,
    <<2893,2893>>, <<2901,2902>>, <<2914,2915>>, <<2946,2946>>, <<3008,3008>>, <<3021,3021>>,
    <<3072,3072>>, <<3076,3076>>, <<3132,3132>>, <<3134,3136>>, <<3142,3144>>, <<3146,3149>>,
    <<3157,3158>>, <<3170,3171>>, <<3201,3201>>, <<3260,3260>>, <<3263,3263>>, <<3270,3270>>,
    <<3276,3277>>, <<3298,3299>>, <<3328,3329>>, <<3387,3388>>, <<3393,3396>>, <<3405,3405>>,
    <<3426,3427>>, <<3457,3457>>, <<3530,3530>>, <<3538,3540>>, <<3542,3542>>, <<3633,3633>>,
    <<3636,3642>>, <<3654,3662>>, <<3761,3761>>, <<3764,3772>>, <<3782,3782>>, <<3784,3789>>,
    <<3864,3865>>, <<3893,3893>>, <<3895,3895>>, <<3897,3897>>, <<3953,3966>>, <<3968,3972>>,
    <<3974,3975>>, <<3981,3991>>, <<3993,4028>>, <<4038,4038>>, <<4141,4144>>, <<4146,4151>>,
    <<4153,4154>>, <<4157,4158>>, <<4184,4185>>, <<4190,4192>>, <<4209,4212>>, <<4226,4226>>,
    <<4229,4230>>, <<4237,4237>>, <<4253,4253>>, <<4348,4348>>, <<4957,4959>>, <<5906,5908>>,
    <<5938,5939>>, <<5970,5971>>, <<6002,6003>>, <<6068,6069>>, <<6071,6077>>, <<6086,6086>>,
    <<6089,6099>>, <<6103,6103>>, <<6109,6109>>, <<6155,6159>>, <<6211,6211>>, <<6277,6278>>,
    <<6313,6313>>, <<6432,6434>>, <<6439,6440>>, <<6450,6450>>, <<6457,6459>>, <<6679,6680>>,
    <<6683,6683>>, <<6742,6742>>, <<6744,6750>>, <<6752,6752>>, <<6754,6754>>, <<6757,6764>>,
    <<6771,6780>>, <<6783,6783>>, <<6823,6823>>, <<6832,6862>>, <<6912,6915>>, <<6964,6964>>,
    <<6966,6970>>, <<6972,6972>>, <<6978,6978>>, <<7019,7027>>, <<7040,7041>>, <<7074,7077>>,
    <<7080,7081>>, <<7083,7085>>, <<7142,7142>>, <<7144,7145>>, <<7149,7149>>, <<7151,7153>>,
    <<7212,7219>>, <<7222,7223>>, <<7288,7293>>, <<7376,7378>>, <<7380,7392>>, <<7394,7400>>,
    <<7405,7405>>, <<7412,7412>>, <<7416,7417>>, <<7468,7530>>, <<7544,7544>>, <<7579,7679>>,
    <<8125,8125>>, <<8127,8129>>, <<8141,8143>>, <<8157,8159>>, <<8173,8175>>, <<8189,8190>>,
    <<8203,8207>>, <<8216,8217>>, <<8228,8228>>, <<8231,8231>>, <<8234,8238>>, <<8288,8292>>,
    <<8294,8303>>, <<8305,8305>>, <<8319,8319>>, <<8336,8348>>, <<8400,8432>>, <<11388,11389>>,
    <<11503,11505>>, <<11631,11631>>, <<11647,11647>>, <<11744,11775>>, <<11823,11823>>, <<12293,12293>>,
    <<12330,12333>>, <<12337,12341>>, <<12347,12347>>, <<12441,12446>>, <<12540,12542>>, <<40981,40981>>,
    <<42232,42237>>, <<42508,42508>>, <<42607,42610>>, <<42612,42621>>, <<42623,42623>>, <<42652,42655>>,
    <<42736,42737>>, <<42752,42785>>, <<42864,42864>>, <<42888,42890>>, <<42994,42996>>, <<43000,43001>>,
    <<43010,43010>>, <<43014,43014>>, <<43019,43019>>, <<43045,43046>>, <<43052,43052>>, <<43204,43205>>,
    <<43232,43249>>, <<43263,43263>>, <<43302,43309>>, <<43335,43345>>, <<43392,43394>>, <<43443,43443>>,
    <<43446,43449>>, <<43452,43453>>, <<43471,43471>>, <<43493,43494>>, <<43561,43566>>, <<43569,43570>>,
    <<43573,43574>>, <<43587,43587>>, <<43596,43596>>, <<43632,43632>>, <<43644,43644>>, <<43696,43696>>,
    <<43698,43700>>, <<43703,43704>>, <<43710,43711>>, <<43713,43713>>, <<43741,43741>>, <<43756,43757>>,
    <<43763,43764>>, <<43766,43766>>, <<43867,43871>>, <<43881,43883>>, <<44005,44005>>, <<44008,44008>>,
    <<44013,44013>>, <<64286,64286>>, <<64434,64450>>, <<65024,65039>>, <<65043,65043>>, <<65056,65071>>,
    <<65106,65106>>, <<65109,65109>>, <<65279,65279>>, <<65287,65287>>, <<65294,65294>>, <<65306,65306>>,
    <<65342,65342>>, <<65344,65344>>, <<65392,65392>>, <<65438,65439>>, <<65507,65507>>, <<65529,65531>>,
    <<66045,66045>>, <<66272,66272>>, <<66422,66426>>, <<67456,67461>>, <<67463,67504>>, <<67506,67514>>,
    <<68097,68099>>, <<68101,68102>>, <<68108,68111>>, <<68152,68154>>, <<68159,68159>>, <<68325,68326>>,
    <<68900,68903>>, <<69291,69292>>, <<69446,69456>>, <<69506,69509>>, <<69633,69633>>, <<69688,69702>>,
    <<69744,69744>>, <<69747,69748>>, <<69759,69761>>, <<69811,69814>>, <<69817,69818>>, <<69821,69821>>,
    <<69826,69826>>, <<69837,69837>>, <<69888,69890>>, <<69927,69931>>, <<69933,69940>>, <<70003,70003>>,
    <<70016,70017>>, <<70070,70078>>, <<70089,70092>>, <<70095,70095>>, <<70191,70193>>, <<70196,70196>>,
    <<70198,70199>>, <<70206,70206>>, <<70367,70367>>, <<70371,70378>>, <<70400,70401>>, <<70459,70460>>,
    <<70464,70464>>, <<70502,70508>>, <<70512,70516>>, <<70712,70719>>, <<70722,70724>>, <<70726,70726>>,
    <<70750,70750>>, <<70835,70840>>, <<70842,70842>>, <<70847,70848>>, <<70850,70851>>, <<71090,71093>>,
    <<71100,71101>>, <<71103,71104>>, <<71132,71133>>, <<71219,71226>>, <<71229,71229>>, <<71231,71232>>,
    <<71339,71339>>, <<71341,71341>>, <<71344,71349>>, <<71351,71351>>, <<71453,71455>>, <<71458,71461>>,
    <<71463,71467>>, <<71727,71735>>, <<71737,71738>>, <<71995,71996>>, <<71998,71998>>, <<72003,72003>>,
    <<72148,72151>>, <<72154,72155>>, <<72160,72160>>, <<72193,72202>>, <<72243,72248>>, <<72251,72254>>,
    <<72263,72263>>, <<72273,72278>>, <<72281,72283>>, <<72330,72342>>, <<72344,72345>>, <<72752,72758>>,
    <<72760,72765>>, <<72767,72767>>, <<72850,72871>>, <<72874,72880>>, <<72882,72883>>, <<72885,72886>>,
    <<73009,73014>>, <<73018,73018>>, <<73020,73021>>, <<73023,73029>>, <<73031,73031>>, <<73104,73105>>,
    <<73109,73109>>, <<73111,73111>>, <<73459,73460>>, <<78896,78904>>, <<92912,92916>>, <<92976,92982>>,
    <<92992,92995>>, <<94031,94031>>, <<94095,94111>>, <<94176,94177>>, <<94179,94180>>, <<110576,110579>>,
    <<110581,110587>>, <<110589,110590>>, <<113821,113822>>, <<113824,113827>>, <<118528,118573>>, <<118576,118598>>,
    <<119143,119145>>, <<119155,119170>>, <<119173,119179>>, <<119210,119213>>, <<119362,119364>>, <<121344,121398>>,
    <<121403,121452>>, <<121461,121461>>, <<121476,121476>>, <<121499,121503>>, <<121505,121519>>, <<122880,122886>>,
    <<122888,122904>>, <<122907,122913>>, <<122915,122916>>, <<122918,122922>>, <<123184,123197>>, <<123566,123566>>,
    <<123628,123631>>, <<125136,125142>>, <<125252,125259>>, <<127995,127999>>, <<917505,917505>>, <<917536,917631>>,
    <<917760,917999>> >>

\* the code points str.isspace() holds for: what strip() removes
WhitespaceRanges == <<
    <<9,13>>, <<28,32>>, <<133,133>>, <<160,160>>, <<5760,5760>>, <<8192,8202>>,
    <<8232,8233>>, <<8239,8239>>, <<8287,8287>>, <<12288,12288>> >>

Cased(c) == InRanges(c, CasedRanges)
CaseIgnorable(c) == InRanges(c, CaseIgnorableRanges)
IsSpace(c) == InRanges(c, WhitespaceRanges)

\* the lowercase of one code point by its simple mapping
LowerChar(c) ==
    IF c < 128 THEN (IF 65 <= c /\ c <= 90 THEN c + 32 ELSE c)
    ELSE LET hit == {k \in 1..Len(LowerRuns) :
                        /\ LowerRuns[k][1] <= c
                        /\ c <= LowerRuns[k][2]
                        /\ (c - LowerRuns[k][1]) % LowerRuns[k][3] = 0}
         IN  IF hit = {} THEN c ELSE c + LowerRuns[CHOOSE k \in hit : TRUE][4]

\* the capital sigma at position i is in final position: the nearest
\* character before it that is not case-ignorable is cased, and the nearest
\* one after it that is not case-ignorable, if any, is not cased
final_sigma(s, i) ==
    LET before == {j \in 1..(i - 1) : ~CaseIgnorable(s[j])}
        after == {j \in (i + 1)..Len(s) : ~CaseIgnorable(s[j])}
    IN  /\ before # {}
        /\ Cased(s[CHOOSE j \in before : \A k \in before : k <= j])
        /\ after # {} => ~Cased(s[CHOOSE j \in after : \A k \in after : j <= k])

\* the lowercase of the character at position i of s: U+0130 lowers to two
\* code points, U+03A3 to the final or the medial small sigma
LowerAt(s, i) ==
    IF s[i] = 304 THEN <<105, 775>>
    ELSE IF s[i] = 931 THEN (IF final_sigma(s, i) THEN <<962>> ELSE <<963>>)
    ELSE <<LowerChar(s[i])>>

RECURSIVE LowerFrom(_, _)
LowerFrom(s, i) == IF i > Len(s) THEN <<>> ELSE LowerAt(s, i) \o LowerFrom(s, i + 1)

\* s.lower()
Lower(s) == LowerFrom(s, 1)

\* s.replace(" ", "")
RemoveSpaces(s) == SelectSeq(s, LAMBDA c : c # 32)

\* s.strip()
Strip(s) ==
    LET keep == {i \in 1..Len(s) : ~IsSpace(s[i])}
    IN  IF keep = {} THEN <<>>
        ELSE SubSeq(s, CHOOSE i \in keep : \A j \in keep : i <= j,
                       CHOOSE i \in keep : \A j \in keep : i >= j)

\* sub in s
Contains(s, sub) ==
    \E i \in 0..(Len(s) - Len(sub)) : SubSeq(s, i + 1, i + Len(sub)) = sub

\* s.endswith(suf)
EndsWith(s, suf) ==
    /\ Len(suf) <= Len(s)
    /\ SubSeq(s, Len(s) - Len(suf) + 1, Len(s)) = suf

----------------------------------------------------------------------------
(* Credentials *)

\* "if not api_key": os.getenv gave None or the empty string
Truthy(opt) == opt # None /\ opt[1] # ""

\* Result of a call: exc is the exception raised ("" if it returned), value the return value
Return(v) == [exc |-> "", value |-> v]
Raise(e) == [exc |-> e, value |-> None]

get_youtube_api_key(e) ==
    IF ~Truthy(e.YOUTUBE_API_KEY) THEN Raise("RuntimeError")
    ELSE Return(e.YOUTUBE_API_KEY[1])

get_mackerel_api_key(e) ==
    IF ~Truthy(e.MACKEREL_API_KEY) THEN Raise("RuntimeError")
    ELSE Return(e.MACKEREL_API_KEY[1])

----------------------------------------------------------------------------
(* HTTP responses of the catalog: exc is what requests.get raised ("" if   *)
(* it returned), status the HTTP status, reason the first error reason of  *)
(* an error body, items the "items" array of the JSON body.                *)

\* resp.raise_for_status()
raise_for_status(resp) == 400 <= resp.status /\ resp.status < 600

----------------------------------------------------------------------------
(* filter_mv_items *)

exclude_keywords == <<
    Str(<<"r","e","m","i","x">>),
    Str(<<"p","e","r","f","o","r","m","a","n","c","e">>),
    Str(<<"p","e","r","f",".">>),
    Str(<<"d","a","n","c","e">>),
    Str(<<"c","h","o","r","e","o">>),
    Str(<<"p","r","a","c","t","i","c","e">>),
    Str(<<"t","e","a","s","e","r">>),
    Str(<<"h","i","g","h","l","i","g","h","t">>),
    Str(<<"l","y","r","i","c">>),
    Str(<<"r","e","a","c","t","i","o","n">>),
    Str(<<"t","r","a","c","k"," ","v","i","d","e","o">>) >>

mv_suffixes == << Str(<<"m","v">>), Str(<<"m","v",")">>), Str(<<"m","v","]">>),
                  Str(<<"o","f","f","i","c","i","a","l"," ","m","v">>) >>

\* group_name.lower().replace(" ", "")
group_key_of(group_name) == RemoveSpaces(Lower(group_name))

\* The three checks of the loop body, in the order of the code
has_group_key(t, group_name) ==
    Contains(RemoveSpaces(Lower(t)), group_key_of(group_name))

has_exclude_keyword(t) ==
    \E k \in 1..Len(exclude_keywords) : Contains(Lower(t), exclude_keywords[k])

has_mv_suffix(t) ==
    \E k \in 1..Len(mv_suffixes) : EndsWith(Strip(Lower(t)), mv_suffixes[k])

passes_filter(t, group_name) ==
    /\ has_group_key(t, group_name)
    /\ ~has_exclude_keyword(t)
    /\ has_mv_suffix(t)

RECURSIVE filter_mv_items_from(_, _, _)
filter_mv_items_from(items, group_name, i) ==
    IF i > Len(items) THEN None
    ELSE IF ~has_group_key(items[i].title, group_name)
         THEN filter_mv_items_from(items, group_name, i + 1)
    ELSE IF has_exclude_keyword(items[i].title)
         THEN filter_mv_items_from(items, group_name, i + 1)
    ELSE IF ~has_mv_suffix(items[i].title)
         THEN filter_mv_items_from(items, group_name, i + 1)
    ELSE Some([video_id |-> items[i].videoId, title |-> items[i].title])

\* Variant that forgets the exclusion vocabulary
filter_mv_items_noexclude(items, group_name) ==
    LET ok == {i \in 1..Len(items) :
                  /\ has_group_key(items[i].title, group_name)
                  /\ has_mv_suffix(items[i].title)}
    IN  IF ok = {} THEN None
        ELSE LET i == CHOOSE i \in ok : \A j \in ok : i <= j
             IN  Some([video_id |-> items[i].videoId, title |-> items[i].title])

filter_mv_items(items, group_name) == filter_mv_items_from(items, group_name, 1)

----------------------------------------------------------------------------
(* is_shorts.  isodate.parse_duration matches the string against its       *)
(* period pattern                                                          *)
(*   [+-]? P [nY] [nM] [nW] [nD] [ T [nH] [nM] [nS] ]                      *)
(* where n is [0-9]+([,.][0-9]+)?, something follows the P, and a newline  *)
(* may end the string.  The weeks, days, hours, minutes and seconds make a *)
(* timedelta (days, seconds of the day, microseconds), negated under the   *)
(* sign "-"; years and months are kept apart from it and do not count in   *)
(* total_seconds().  A string that does not match is tried as "P" followed *)
(* by a date and time, which raises or gives at least the one day of its   *)
(* day of month.  Each number is converted with float() to the nearest     *)
(* double, and timedelta adds the doubles up as microseconds: the whole    *)
(* part of each exactly, the parts under one in double arithmetic, rounded *)
(* at the end.  Doubles are computed here exactly as the hardware does,    *)
(* on numbers of any length.                                               *)

Min2(a, b) == IF a < b THEN a ELSE b
Max2(a, b) == IF a < b THEN b ELSE a

IsDigit(c) == 48 <= c /\ c <= 57
DigitVal(c) == c - 48

\* reads [0-9]* from position i; <<value, position after the digits>>
RECURSIVE ReadNum(_, _, _)
ReadNum(s, i, acc) ==
    IF i <= Len(s) /\ IsDigit(s[i]) THEN ReadNum(s, i + 1, acc * 10 + DigitVal(s[i]))
    ELSE <<acc, i>>

\* the position after [0-9]* from position i
SkipDigits(s, i) ==
    LET rest == {j \in i..Len(s) : ~IsDigit(s[j])}
    IN  IF rest = {} THEN Max2(i, Len(s) + 1) ELSE CHOOSE j \in rest : \A k \in rest : j <= k

\* the position after [0-9]+([,.][0-9]+)? from position i, 0 if there is none
NumberEnd(s, i) ==
    LET j == SkipDigits(s, i)
    IN  IF j = i THEN 0
        ELSE IF j < Len(s) /\ s[j] \in {44, 46} /\ IsDigit(s[j + 1])
             THEN SkipDigits(s, j + 1)
        ELSE j

\* Y M W D and H M S
DateUnits == <<89, 77, 87, 68>>
TimeUnits == <<72, 77, 83>>

\* the optional groups "n unit" for the units from the k-th on, in order,
\* from position i: the number matched for each unit (empty if the group is
\* absent) and the position after the last group
RECURSIVE MatchGroups(_, _, _, _, _)
MatchGroups(s, i, units, k, found) ==
    LET j == NumberEnd(s, i)
    IN  IF j = 0 \/ j > Len(s) THEN [pos |-> i, groups |-> found]
        ELSE LET m == {n \in k..Len(units) : units[n] = s[j]}
             IN  IF m = {} THEN [pos |-> i, groups |-> found]
                 ELSE LET n == CHOOSE n \in m : TRUE
                      IN  MatchGroups(s, j + 1, units, n + 1,
                                      [found EXCEPT ![n] = SubSeq(s, i, j - 1)])

\* ISO8601_PERIOD_REGEX.match(s): the sign (0 if none) and the number of
\* each group, or None
period_match(s) ==
    LET p == IF Len(s) >= 1 /\ s[1] \in {43, 45} THEN 2 ELSE 1
    IN  IF Len(s) < p \/ s[p] # 80 THEN None
        ELSE LET d == MatchGroups(s, p + 1, DateUnits, 1, <<<<>>, <<>>, <<>>, <<>>>>)
                 t == IF d.pos <= Len(s) /\ s[d.pos] = 84
                      THEN MatchGroups(s, d.pos + 1, TimeUnits, 1, <<<<>>, <<>>, <<>>>>)
                      ELSE [pos |-> d.pos, groups |-> <<<<>>, <<>>, <<>>>>]
             IN  IF t.pos = p + 1 THEN None
                 ELSE IF t.pos = Len(s) + 1 \/ (t.pos = Len(s) /\ s[t.pos] = 10)
                      THEN Some([sign |-> IF p = 2 THEN s[1] ELSE 0,
                                 years |-> d.groups[1], months |-> d.groups[2],
                                 weeks |-> d.groups[3], days |-> d.groups[4],
                                 hours |-> t.groups[1], minutes |-> t.groups[2],
                                 seconds |-> t.groups[3]])
                 ELSE None

\* A number beyond the 32 bits of an integer of the checker is a sequence of
\* limbs in base 2^15, the least significant first, the last one not 0.
Base == 32768

\* 2^0 .. 2^15
Pow2 == <<1, 2, 4, 8, 16, 32, 64, 128, 256, 512, 1024, 2048, 4096, 8192, 16384, 32768>>

Limb(a, i) == IF i <= Len(a) THEN a[i] ELSE 0

Trim(a) ==
    LET nz == {i \in 1..Len(a) : a[i] # 0}
    IN  IF nz = {} THEN <<>> ELSE SubSeq(a, 1, CHOOSE i \in nz : \A j \in nz : j <= i)

RECURSIVE BigOfInt(_)
BigOfInt(n) == IF n = 0 THEN <<>> ELSE <<n % Base>> \o BigOfInt(n \div Base)

RECURSIVE AddFrom(_, _, _, _, _)
AddFrom(a, b, i, carry, acc) ==
    IF i > Len(a) /\ i > Len(b) THEN (IF carry = 0 THEN acc ELSE Append(acc, carry))
    ELSE AddFrom(a, b, i + 1, (Limb(a, i) + Limb(b, i) + carry) \div Base,
                 Append(acc, (Limb(a, i) + Limb(b, i) + carry) % Base))

BigAdd(a, b) ==
    IF a = <<>> THEN b ELSE IF b = <<>> THEN a ELSE AddFrom(a, b, 1, 0, <<>>)

\* a * c, for c < Base
RECURSIVE MulFrom(_, _, _, _, _)
MulFrom(a, c, i, carry, acc) ==
    IF i > Len(a) THEN (IF carry = 0 THEN acc ELSE Append(acc, carry))
    ELSE MulFrom(a, c, i + 1, (a[i] * c + carry) \div Base,
                 Append(acc, (a[i] * c + carry) % Base))

BigMulSmall(a, c) == IF a = <<>> \/ c = 0 THEN <<>> ELSE MulFrom(a, c, 1, 0, <<>>)

\* a * Base^k
ShiftLimbs(a, k) == IF a = <<>> THEN <<>> ELSE [i \in 1..k |-> 0] \o a

RECURSIVE MulAcc(_, _, _, _)
MulAcc(a, b, i, acc) ==
    IF i > Len(b) THEN acc
    ELSE MulAcc(a, b, i + 1, BigAdd(acc, ShiftLimbs(BigMulSmall(a, b[i]), i - 1)))

BigMul(a, b) == MulAcc(a, b, 1, <<>>)

\* <<a \div c, a % c>>, for 0 < c < Base, from the limbs i and below of a
\* and what is left of the limbs above
RECURSIVE DivFrom(_, _, _, _, _)
DivFrom(a, c, i, rem, q) ==
    IF i = 0 THEN <<Trim(q), rem>>
    ELSE DivFrom(a, c, i - 1, (rem * Base + a[i]) % c, <<(rem * Base + a[i]) \div c>> \o q)

BigDivSmall(a, c) == DivFrom(a, c, Len(a), 0, <<>>)

BigLess(a, b) ==
    IF Len(a) # Len(b) THEN Len(a) < Len(b)
    ELSE LET d == {i \in 1..Len(a) : a[i] # b[i]}
         IN  d # {} /\ LET k == CHOOSE i \in d : \A j \in d : j <= i IN a[k] < b[k]

\* the number of bits of a
BitLen(a) ==
    IF a = <<>> THEN 0
    ELSE 15 * (Len(a) - 1) + Cardinality({k \in 1..15 : Pow2[k] <= a[Len(a)]})

\* a * 2^s, the whole of a / 2^s, and a % 2^s
ShiftLeft(a, s) == ShiftLimbs(BigMulSmall(a, Pow2[(s % 15) + 1]), s \div 15)

ShiftRight(a, s) ==
    IF s \div 15 >= Len(a) THEN <<>>
    ELSE BigDivSmall(SubSeq(a, s \div 15 + 1, Len(a)), Pow2[(s % 15) + 1])[1]

LowBits(a, s) ==
    IF s \div 15 >= Len(a) THEN a
    ELSE Trim(Append(SubSeq(a, 1, s \div 15), a[s \div 15 + 1] % Pow2[(s % 15) + 1]))

IsOdd(a) == a # <<>> /\ a[1] % 2 = 1

\* A double is kept as [n, t], the value n / 2^t.
Zero == [n |-> <<>>, t |-> 0]

\* n rounded to a multiple of 2^drop, in units of 2^drop: to the nearest, a
\* half to the even one; sticky tells that n stands for a little more
RoundBits(n, drop, sticky) ==
    IF drop = 0 THEN n
    ELSE IF BigLess(ShiftLeft(<<1>>, drop - 1), LowBits(n, drop))
            \/ (LowBits(n, drop) = ShiftLeft(<<1>>, drop - 1)
                /\ (sticky \/ IsOdd(ShiftRight(n, drop))))
         THEN BigAdd(ShiftRight(n, drop), <<1>>)
    ELSE ShiftRight(n, drop)

\* the double nearest to n / 2^t, for t <= 1074: the first 53 bits of n
RoundDyadic(n, t) ==
    IF BitLen(n) <= 53 THEN [n |-> n, t |-> t]
    ELSE IF BitLen(n) - 53 <= t
         THEN [n |-> RoundBits(n, BitLen(n) - 53, FALSE), t |-> t - (BitLen(n) - 53)]
    ELSE [n |-> ShiftLeft(RoundBits(n, BitLen(n) - 53, FALSE), BitLen(n) - 53 - t), t |-> 0]

TenTo == <<10, 100, 1000, 10000>>

\* the number of decimal digits txt, from acc for the digits before the
\* i-th, four digits at a time
RECURSIVE DigitsFrom(_, _, _)
DigitsFrom(txt, i, acc) ==
    IF i > Len(txt) THEN acc
    ELSE IF acc = <<>>
         THEN DigitsFrom(txt, i + 4,
                         BigOfInt(ReadNum(SubSeq(txt, i, Min2(i + 3, Len(txt))), 1, 0)[1]))
    ELSE DigitsFrom(txt, i + 4,
                    BigAdd(BigMulSmall(acc, TenTo[Min2(4, Len(txt) + 1 - i)]),
                           BigOfInt(ReadNum(SubSeq(txt, i, Min2(i + 3, Len(txt))), 1, 0)[1])))

BigOfDigits(txt) == DigitsFrom(txt, 1, <<>>)

\* <<a \div 10^k, whether anything is left>> for a = qr[1], where the
\* division before left qr[2] or rest tells that something was left; four
\* digits at a time
RECURSIVE DivPow10From(_, _, _)
DivPow10From(qr, k, rest) ==
    IF k = 0 \/ qr[1] = <<>> THEN <<qr[1], rest \/ qr[2] # 0>>
    ELSE DivPow10From(BigDivSmall(qr[1], TenTo[Min2(k, 4)]), k - Min2(k, 4),
                      rest \/ qr[2] # 0)

DivPow10(a, k) == DivPow10From(<<a, 0>>, k, FALSE)

\* the exponent e of num / 10^k, for num > 0: 2^e <= num / 10^k < 2^(e + 1)
Exponent(num, k) == BitLen(DivPow10(ShiftLeft(num, 4 * k), k)[1]) - 1 - 4 * k

\* the quotient and one more bit (qs[1]), with what is left (qs[2]), rounded
\* to the nearest, a half to the even one
Nearest(qs) == RoundBits(qs[1], 1, qs[2])

\* num / 10^k as a multiple of 2^(-s), rounded to the nearest
RoundAt(num, k, s) ==
    IF s >= 0 THEN [n |-> Nearest(DivPow10(ShiftLeft(num, s + 1), k)), t |-> s]
    ELSE [n |-> ShiftLeft(RoundBits(DivPow10(num, k)[1], -s, DivPow10(num, k)[2]), -s),
          t |-> 0]

\* the double nearest to num / 10^k, for num > 0 and a value under 2^1024:
\* 53 bits from the first one, and none under 2^(-1074)
RoundDecimal(num, k) == RoundAt(num, k, Min2(52 - Exponent(num, k), 1074))

\* the digits before and after the "," or "." of a number
IntDigits(txt) == SubSeq(txt, 1, SkipDigits(txt, 1) - 1)
FracDigits(txt) == SubSeq(txt, SkipDigits(txt, 1) + 1, Len(txt))

\* the number of digits from the first that is not 0
SignificantLen(d) ==
    LET nz == {i \in 1..Len(d) : d[i] # 48}
    IN  IF nz = {} THEN 0 ELSE Len(d) + 1 - (CHOOSE i \in nz : \A j \in nz : i <= j)

\* float(txt) of a number (empty: 0) under 2^1024; a whole number of
\* fewer than 16 digits is a double as it is
float_of(txt) ==
    IF SignificantLen(IntDigits(txt) \o FracDigits(txt)) = 0 THEN Zero
    ELSE IF FracDigits(txt) = <<>> /\ SignificantLen(txt) < 16
         THEN [n |-> BigOfDigits(txt), t |-> 0]
    ELSE RoundDecimal(BigOfDigits(IntDigits(txt) \o FracDigits(txt)), Len(FracDigits(txt)))

\* the whole microseconds and the part of a microsecond of a double
WholePart(d) == ShiftRight(d.n, d.t)
FracPart(d) == [n |-> LowBits(d.n, d.t), t |-> d.t]

\* the sum of two doubles under 1, as a double
DoubleAdd(a, b) ==
    IF a.n = <<>> THEN b
    ELSE IF b.n = <<>> THEN a
    ELSE RoundDyadic(BigAdd(ShiftLeft(a.n, Max2(a.t, b.t) - a.t),
                            ShiftLeft(b.n, Max2(a.t, b.t) - b.t)),
                     Max2(a.t, b.t))

\* microseconds per second, minute, hour, day and week
UsPerSecond == BigOfInt(1000000)
UsPerMinute == BigMulSmall(UsPerSecond, 60)
UsPerHour == BigMulSmall(UsPerMinute, 60)
UsPerDay == BigMulSmall(UsPerHour, 24)
UsPerWeek == BigMulSmall(UsPerDay, 7)

\* a timedelta holds at most 999999999 days: day counts are kept up to MaxDays
MaxDays == 1000000000

\* The constructor of timedelta adds up microseconds: x whole ones, and in
\* the double leftover the parts of a microsecond; ok is FALSE once a value
\* is beyond every timedelta.
NoTime == [x |-> <<>>, leftover |-> Zero, ok |-> TRUE]

\* adds the product of a part of a unit, itself a part under 1 of a double,
\* and the microseconds of the unit: a double again
accum_product(sum, leftover, prod) ==
    [x |-> BigAdd(sum, WholePart(prod)),
     leftover |-> DoubleAdd(leftover, FracPart(prod)),
     ok |-> TRUE]

accum_fraction(sum, leftover, frac, factor) ==
    IF frac.n = <<>> THEN [x |-> sum, leftover |-> leftover, ok |-> TRUE]
    ELSE accum_product(sum, leftover, RoundDyadic(BigMul(frac.n, factor), frac.t))

\* adds the double num of a unit of factor microseconds: the whole part
\* exactly, the rest as a product of doubles
accum_float(acc, num, factor) ==
    accum_fraction(BigAdd(acc.x, BigMul(WholePart(num), factor)), acc.leftover,
                   FracPart(num), factor)

\* adds the number txt of a unit; a number of 15 integer digits or more is
\* more than 999999999 days of any unit
accum(acc, txt, factor) ==
    IF ~acc.ok \/ SignificantLen(IntDigits(txt)) >= 15 THEN [acc EXCEPT !.ok = FALSE]
    ELSE accum_float(acc, float_of(txt), factor)

\* x and the leftover rounded to the nearest whole, a half to the side that
\* makes the sum even
round_half_even(sum, frac) ==
    IF frac.n = <<>> THEN sum
    ELSE IF BigLess(ShiftLeft(<<1>>, frac.t - 1), frac.n)
            \/ (frac.n = ShiftLeft(<<1>>, frac.t - 1) /\ IsOdd(sum))
         THEN BigAdd(sum, <<1>>)
    ELSE sum

round_leftover(acc) ==
    round_half_even(BigAdd(acc.x, WholePart(acc.leftover)), FracPart(acc.leftover))

\* the number of a short sequence of limbs, MaxDays for a longer one
IntOfBig(a) == IF Len(a) > 2 THEN MaxDays ELSE Min2(Limb(a, 1) + Base * Limb(a, 2), MaxDays)

\* the days, the seconds of the day and the microseconds of x microseconds
microseconds_to_delta(x) ==
    LET ms == BigDivSmall(x, 1000)
        s == BigDivSmall(ms[1], 1000)
        m4 == BigDivSmall(s[1], 240)
        d == BigDivSmall(m4[1], 360)
    IN  [days |-> IntOfBig(d[1]),
         seconds |-> d[2] * 240 + m4[2],
         microseconds |-> s[2] * 1000 + ms[2]]

\* days of MaxDays, and nothing else, stand for the OverflowError
Overflow == [days |-> MaxDays, seconds |-> 0, microseconds |-> 0]

DaysChecked(td) == IF td.days >= MaxDays THEN Overflow ELSE td

delta_of(acc) ==
    IF acc.ok THEN DaysChecked(microseconds_to_delta(round_leftover(acc))) ELSE Overflow

\* timedelta(weeks, days, hours, minutes, seconds) of the matched groups,
\* each converted with float(); the constructor takes the seconds first and
\* the weeks last
timedelta_of(g) ==
    delta_of(accum(accum(accum(accum(accum(NoTime,
                 g.seconds, UsPerSecond), g.minutes, UsPerMinute), g.hours, UsPerHour),
                 g.days, UsPerDay), g.weeks, UsPerWeek))

\* total_seconds() < 60 of the timedelta td under the sign: parse_duration
\* raises when the sum exceeds the days of a timedelta, and so does the
\* negation under the sign "-" of a sum of 999999999 days and a part of a
\* day; a negated sum is not positive
UnderMinute(sign, td) ==
    IF td.days >= MaxDays THEN FALSE
    ELSE IF sign = 45
         THEN ~(td.days = MaxDays - 1 /\ (td.seconds > 0 \/ td.microseconds > 0))
    ELSE td.days = 0 /\ td.seconds < 60

\* the answer of is_shorts for the match m of the period pattern; no match
\* makes parse_duration raise
MatchIsShort(m) ==
    IF m = None THEN FALSE ELSE UnderMinute(m[1].sign, timedelta_of(m[1]))

\* isodate.parse_duration(duration).total_seconds() < 60, False when
\* parse_duration raises
is_shorts(duration) == MatchIsShort(period_match(duration))

----------------------------------------------------------------------------
(* get_video_duration and search_latest_mv.  A call result carries, next to *)
(* exc and value, the catalog requests the call issued, in order.           *)

Call(op, vid) == [op |-> op, vid |-> vid]

\* resp: the catalog's answer to the contentDetails request for this video
get_video_duration(e, vid, resp) ==
    IF get_youtube_api_key(e).exc # ""
        THEN [exc |-> "RuntimeError", value |-> None, calls |-> <<>>]
    ELSE IF resp.exc # ""
        THEN [exc |-> resp.exc, value |-> None, calls |-> <<Call("duration", vid)>>]
    ELSE IF raise_for_status(resp)
        THEN [exc |-> "HTTPError", value |-> None, calls |-> <<Call("duration", vid)>>]
    ELSE IF resp.items = <<>>
        THEN [exc |-> "", value |-> None, calls |-> <<Call("duration", vid)>>]
    ELSE [exc |-> "", value |-> Some(resp.items[1]), calls |-> <<Call("duration", vid)>>]

\* "if duration and is_shorts(duration)" / "if d2 and not is_shorts(d2)":
\* a duration is falsy when it is None or the empty string
duration_truthy(d) == d # None /\ d[1] # <<>>

\* the relaxed rule of the rescan
relaxed_match(t, group_name) ==
    /\ Contains(RemoveSpaces(Lower(t)), RemoveSpaces(Lower(group_name)))
    /\ Contains(Lower(t), Str(<<"m","v">>))

\* the loop "for item in items[1:]", from position i of items; durs[n] is
\* the catalog's answer to the next contentDetails request
RECURSIVE rescan(_, _, _, _, _, _, _)
rescan(e, items, durs, n, group_name, i, issued) ==
    IF i > Len(items) THEN [exc |-> "", value |-> None, calls |-> issued]
    ELSE IF ~relaxed_match(items[i].title, group_name)
        THEN rescan(e, items, durs, n, group_name, i + 1, issued)
    ELSE LET d2 == get_video_duration(e, items[i].videoId, durs[n])
         IN  IF d2.exc # ""
                 THEN [exc |-> d2.exc, value |-> None, calls |-> issued \o d2.calls]
             ELSE IF duration_truthy(d2.value) /\ ~is_shorts(d2.value[1])
                 THEN [exc |-> "",
                       value |-> Some([video_id |-> items[i].videoId,
                                       title |-> items[i].title]),
                       calls |-> issued \o d2.calls]
             ELSE rescan(e, items, durs, n + 1, group_name, i + 1, issued \o d2.calls)

\* Variant whose rescan starts after the rejected match instead of at items[1:]
search_latest_mv_after_match(e, resp, durs, group_name) ==
    IF get_youtube_api_key(e).exc # ""
        THEN [exc |-> "RuntimeError", value |-> None, calls |-> <<>>]
    ELSE IF resp.exc # ""
        THEN [exc |-> resp.exc, value |-> None, calls |-> <<Call("search", "")>>]
    ELSE IF raise_for_status(resp)
        THEN [exc |-> "HTTPError", value |-> None, calls |-> <<Call("search", "")>>]
    ELSE IF resp.items = <<>>
        THEN [exc |-> "", value |-> None, calls |-> <<Call("search", "")>>]
    ELSE LET mv == filter_mv_items(resp.items, group_name)
         IN  IF mv = None
                 THEN [exc |-> "", value |-> None, calls |-> <<Call("search", "")>>]
             ELSE LET d == get_video_duration(e, mv[1].video_id, durs[1])
                      issued == <<Call("search", "")>> \o d.calls
                      pos == CHOOSE i \in 1..Len(resp.items) :
                                 /\ resp.items[i].videoId = mv[1].video_id
                                 /\ resp.items[i].title = mv[1].title
                                 /\ \A j \in 1..(i - 1) :
                                        ~passes_filter(resp.items[j].title, group_name)
                  IN  IF d.exc # ""
                          THEN [exc |-> d.exc, value |-> None, calls |-> issued]
                      ELSE IF duration_truthy(d.value) /\ is_shorts(d.value[1])
                          THEN rescan(e, resp.items, durs, 2, group_name, pos + 1, issued)
                      ELSE [exc |-> "", value |-> mv, calls |-> issued]

\* resp: the catalog's answer to the search request; durs: its answers to
\* the contentDetails requests, in the order of the requests
search_latest_mv(e, resp, durs, group_name) ==
    IF get_youtube_api_key(e).exc # ""
        THEN [exc |-> "RuntimeError", value |-> None, calls |-> <<>>]
    ELSE IF resp.exc # ""
        THEN [exc |-> resp.exc, value |-> None, calls |-> <<Call("search", "")>>]
    ELSE IF raise_for_status(resp)
        THEN [exc |-> "HTTPError", value |-> None, calls |-> <<Call("search", "")>>]
    ELSE IF resp.items = <<>>
        THEN [exc |-> "", value |-> None, calls |-> <<Call("search", "")>>]
    ELSE LET mv == filter_mv_items(resp.items, group_name)
         IN  IF mv = None
                 THEN [exc |-> "", value |-> None, calls |-> <<Call("search", "")>>]
             ELSE LET d == get_video_duration(e, mv[1].video_id, durs[1])
                      issued == <<Call("search", "")>> \o d.calls
                  IN  IF d.exc # ""
                          THEN [exc |-> d.exc, value |-> None, calls |-> issued]
                      ELSE IF duration_truthy(d.value) /\ is_shorts(d.value[1])
                          THEN rescan(e, resp.items, durs, 2, group_name, 2, issued)
                      ELSE [exc |-> "", value |-> mv, calls |-> issued]

----------------------------------------------------------------------------
(* State store.  The state dict is a function from the group ids it holds  *)
(* to entries; an entry is a record with video_id, last_view and, when it  *)
(* has one, title.                                                         *)

EmptyState == [g \in {} |-> 0]

\* state.get(group_id)
StateGet(st, group_id) == IF group_id \in DOMAIN st THEN Some(st[group_id]) ELSE None

\* entry.get("title") is truthy
has_title(entry) == "title" \in DOMAIN entry /\ entry.title # <<>>

\* "if title": the argument is neither None nor the empty string
title_given(ttl) == ttl # None /\ ttl[1] # <<>>

load_state(f) == IF f = None THEN EmptyState ELSE f[1]

save_state(st) == Some(st)

\* Variant that computes the delta against the stored count whatever the video
calc_view_delta_anyvideo(st, group_id, vid, current_view, ttl) ==
    LET prev_entry == StateGet(st, group_id)
        raw_delta == IF prev_entry # None THEN current_view - prev_entry[1].last_view ELSE 0
        delta == IF raw_delta > 0 THEN raw_delta ELSE 0
        updated_entry ==
            IF title_given(ttl)
                THEN [video_id |-> vid, last_view |-> current_view, title |-> ttl[1]]
            ELSE IF prev_entry # None /\ has_title(prev_entry[1])
                THEN [video_id |-> vid, last_view |-> current_view,
                      title |-> prev_entry[1].title]
            ELSE [video_id |-> vid, last_view |-> current_view]
    IN  [delta |-> delta,
         state |-> [g \in DOMAIN st \cup {group_id} |->
                        IF g = group_id THEN updated_entry ELSE st[g]]]

\* Variant that drops the cached title when no title is given
calc_view_delta_notitle(st, group_id, vid, current_view, ttl) ==
    LET prev_entry == StateGet(st, group_id)
        raw_delta == IF prev_entry # None /\ prev_entry[1].video_id = vid
                     THEN current_view - prev_entry[1].last_view ELSE 0
        delta == IF raw_delta > 0 THEN raw_delta ELSE 0
        updated_entry ==
            IF title_given(ttl)
                THEN [video_id |-> vid, last_view |-> current_view, title |-> ttl[1]]
            ELSE [video_id |-> vid, last_view |-> current_view]
    IN  [delta |-> delta,
         state |-> [g \in DOMAIN st \cup {group_id} |->
                        IF g = group_id THEN updated_entry ELSE st[g]]]

\* returns the delta and the state dict as the call leaves it
calc_view_delta(st, group_id, vid, current_view, ttl) ==
    LET prev_entry == StateGet(st, group_id)
        same_video == prev_entry # None /\ prev_entry[1].video_id = vid
        prev_view == IF same_video
                     THEN IF "last_view" \in DOMAIN prev_entry[1]
                          THEN prev_entry[1].last_view ELSE 0
                     ELSE 0
        raw_delta == current_view - prev_view
        delta == IF same_video /\ raw_delta > 0 THEN raw_delta ELSE 0
        updated_entry ==
            IF title_given(ttl)
                THEN [video_id |-> vid, last_view |-> current_view, title |-> ttl[1]]
            ELSE IF prev_entry # None /\ has_title(prev_entry[1])
                THEN [video_id |-> vid, last_view |-> current_view,
                      title |-> prev_entry[1].title]
            ELSE [video_id |-> vid, last_view |-> current_view]
    IN  [delta |-> delta,
         state |-> [g \in DOMAIN st \cup {group_id} |->
                        IF g = group_id THEN updated_entry ELSE st[g]]]

----------------------------------------------------------------------------
(* get_video_stats and post_service_metric *)

quota_reasons == {"quotaExceeded", "dailyLimitExceeded",
                  "dailyLimitExceededUnreg", "userRateLimitExceeded"}

\* int(s) of a string of decimal digits
int_of(s) == ReadNum(s, 1, 0)[1]

\* resp: the catalog's answer to the statistics request; reason is the
\* optional errors[0].reason of an error body, an item has the optional
\* fields viewCount (a decimal string) and title
get_video_stats(e, vid, resp) ==
    IF get_youtube_api_key(e).exc # ""
        THEN [exc |-> "RuntimeError", value |-> None, calls |-> <<>>]
    ELSE IF resp.exc # ""
        THEN [exc |-> resp.exc, value |-> None, calls |-> <<Call("stats", vid)>>]
    ELSE IF raise_for_status(resp)
        THEN IF resp.reason # None /\ resp.reason[1] \in quota_reasons
             THEN [exc |-> "", value |-> Some([quota_exceeded |-> TRUE]),
                   calls |-> <<Call("stats", vid)>>]
             ELSE [exc |-> "", value |-> None, calls |-> <<Call("stats", vid)>>]
    ELSE IF resp.items = <<>>
        THEN [exc |-> "", value |-> None, calls |-> <<Call("stats", vid)>>]
    ELSE [exc |-> "",
          value |-> Some([viewCount |-> IF resp.items[1].viewCount = None THEN 0
                                        ELSE int_of(resp.items[1].viewCount[1]),
                          title |-> resp.items[1].title]),
          calls |-> <<Call("stats", vid)>>]

\* Variant that names both metrics of a group alike
MetricName_OneSeries(kind, group_id, vid) ==
    [kind |-> "viewcount", group_id |-> group_id, video_id |-> vid]

\* the name f"kpop.youtube.<kind>.{group_id}_{video_id}" as its three parts
MetricName(kind, group_id, vid) == [kind |-> kind, group_id |-> group_id, video_id |-> vid]

\* resp: the sink's answer to the post; value: the data point it accepted, if any
post_service_metric(e, metric_name, v, resp) ==
    IF get_mackerel_api_key(e).exc # "" THEN Raise("RuntimeError")
    ELSE IF resp.exc # "" THEN Raise(resp.exc)
    ELSE IF raise_for_status(resp) THEN Raise("HTTPError")
    ELSE Return(Some([name |-> metric_name, value |-> v]))

----------------------------------------------------------------------------
(* Configuration *)

GROUPS == <<
    [id |-> "ive", name |-> Str(<<"I","V","E">>),
     channel_id |-> "UCYDmx2Sfpnaxg488yBpZIGg"],
    [id |-> "aespa", name |-> Str(<<"a","e","s","p","a">>),
     channel_id |-> "UCEf_Bc-KVd7onSeifS3py9g"],
    [id |-> "taeyeon_panorama", name |-> Str(<<"T","A","E","Y","E","O","N"," ","P","a","n","o","r","a","m","a">>),
     channel_id |-> "UCEf_Bc-KVd7onSeifS3py9g"],
    [id |-> "le_sserafim", name |-> Str(<<"L","E"," ","S","S","E","R","A","F","I","M">>),
     channel_id |-> "UC3IZKseVpdzPSBaWxBxundA"],
    [id |-> "illit", name |-> Str(<<"I","L","L","I","T">>),
     channel_id |-> "UC3IZKseVpdzPSBaWxBxundA"] >>

SEARCH_HOURS_JST == {14, 19}

\* the default of cached_entry.get("title", ...): the placeholder for an unknown title
TitleUnknown == <<40,12479,12452,12488,12523,19981,26126,41>>

----------------------------------------------------------------------------
(* Bounds of the model *)

\* the run loops over the first MaxGroups entries of GROUPS
MaxGroups == 2
\* view counts are in 0..MaxView (in a run of main(): 0 or MaxView)
MaxView == 1
\* candidate lists of the function-level specification have at most MaxItems items
MaxItems == 3

GroupIdx == 1..MaxGroups
GroupIds == {GROUPS[i].id : i \in GroupIdx}
VideoIds == {"v1", "v2"}

----------------------------------------------------------------------------
(* The environment of a run: credentials, state.json, and the answers of   *)
(* the catalog and of the metric sink.                                     *)

EnvPool == [YOUTUBE_API_KEY : {None, Some(""), Some("yt-key")},
            MACKEREL_API_KEY : {None, Some(""), Some("mk-key")}]

OldTitle == Str(<<"o","l","d">>)
StatsTitle == Str(<<"s","t","a","t","s">>)

\* entries a previous run left in state.json
InitEntries == {[video_id |-> "v1", last_view |-> 0],
                [video_id |-> "v1", last_view |-> MaxView, title |-> OldTitle]}

FilePool == {None} \cup
            {Some(f) : f \in UNION {[S -> InitEntries] : S \in SUBSET GroupIds}}

MvTitle(name) == name \o Str(<<" ","M","V">>)
VlogTitle(name) == name \o Str(<<" ","V","l","o","g">>)

Item(vid, t) == [videoId |-> vid, title |-> t]

HttpError(status) == [exc |-> "", status |-> status, reason |-> None, items |-> <<>>]
HttpTimeout == [exc |-> "Timeout", status |-> 0, reason |-> None, items |-> <<>>]
HttpOk(items) == [exc |-> "", status |-> 200, reason |-> None, items |-> items]

\* answers to the search request for a group name
SearchResps(name) ==
    { HttpTimeout, HttpError(403), HttpOk(<<>>),
      HttpOk(<<Item("v1", MvTitle(name))>>),
      HttpOk(<<Item("v1", VlogTitle(name)), Item("v2", MvTitle(name))>>) }

\* answers to a contentDetails request
DurResps == { HttpOk(<<Str(<<"P","T","3","M","1","2","S">>)>>), HttpOk(<<Str(<<"P","T","4","5","S">>)>>),
              HttpError(500) }
\* the answers to the contentDetails requests of one call of the resolver, in
\* the order of the requests: a list of SearchResps makes it ask twice at
\* most (for the match, and for the match again when the rescan comes to it)
DurSeqs == [1..2 -> DurResps]

\* str(n) for n >= 0
RECURSIVE DigitsOf(_)
DigitsOf(n) == IF n < 10 THEN <<48 + n>>
               ELSE DigitsOf(n \div 10) \o <<48 + (n % 10)>>

\* answers to the statistics request
StatsResps ==
    { HttpTimeout, HttpError(500),
      [exc |-> "", status |-> 403, reason |-> Some("quotaExceeded"), items |-> <<>>],
      [exc |-> "", status |-> 403, reason |-> Some("forbidden"), items |-> <<>>],
      HttpOk(<<>>),
      HttpOk(<<[viewCount |-> None, title |-> None]>>) }
    \cup { HttpOk(<<[viewCount |-> Some(DigitsOf(n)), title |-> Some(StatsTitle)]>>) :
              n \in {0, MaxView} }

\* answers of the metric sink
SinkResps == { [exc |-> "", status |-> 200], [exc |-> "", status |-> 500],
               [exc |-> "Timeout", status |-> 0] }

NoStats == [viewCount |-> 0, title |-> None]
NoError == [exc |-> "", in |-> ""]

----------------------------------------------------------------------------
(* main() *)

Init ==
    /\ pc = "start"
    /\ env \in EnvPool
    /\ file \in FilePool
    /\ state = EmptyState
    /\ should_search = FALSE
    /\ idx = 1
    /\ latest = None
    /\ video_id = ""
    /\ title = <<>>
    /\ stats = NoStats
    /\ calls = <<>>
    /\ metrics = <<>>
    /\ outcome = [i \in GroupIdx |-> "pending"]
    /\ error = NoError
    /\ inp = <<>>
    /\ out = <<>>

\* lines 356-366: the hour gate and load_state
Start ==
    /\ pc = "start"
    /\ \E hour \in 0..23 : should_search' = (hour \in SEARCH_HOURS_JST)
    /\ state' = load_state(file)
    /\ pc' = "resolve"
    /\ UNCHANGED <<env, file, idx, latest, video_id, title, stats, calls, metrics,
                   outcome, error, inp, out>>

\* the requests of a call, tagged with the group the loop is at
Tagged(cs, i) == [k \in 1..Len(cs) |-> [op |-> cs[k].op, g |-> i]]

\* "continue" or the end of the loop body: the locals of the iteration are dead
NextGroup ==
    /\ pc' = IF idx < MaxGroups THEN "resolve" ELSE "save"
    /\ idx' = IF idx < MaxGroups THEN idx + 1 ELSE idx
    /\ latest' = None
    /\ video_id' = ""
    /\ title' = <<>>
    /\ stats' = NoStats

\* an uncaught exception raised in function f ends main() without reaching save_state
Crash(e, f) ==
    /\ pc' = "crashed"
    /\ error' = [exc |-> e, in |-> f]

\* Variant that keeps a cached video when there is one
choose_video_prefer_cache(found, cached_entry) ==
    IF cached_entry # None
        THEN [skip |-> FALSE, video_id |-> cached_entry[1].video_id,
              title |-> IF "title" \in DOMAIN cached_entry[1]
                        THEN cached_entry[1].title ELSE TitleUnknown]
    ELSE IF found = None
        THEN [skip |-> TRUE, video_id |-> "", title |-> <<>>]
    ELSE [skip |-> FALSE, video_id |-> found[1].video_id, title |-> found[1].title]

\* lines 384-393: the video and title the iteration goes on with
choose_video(found, cached_entry) ==
    IF found = None
        THEN IF cached_entry = None
                 THEN [skip |-> TRUE, video_id |-> "", title |-> <<>>]
             ELSE [skip |-> FALSE, video_id |-> cached_entry[1].video_id,
                   title |-> IF "title" \in DOMAIN cached_entry[1]
                             THEN cached_entry[1].title ELSE TitleUnknown]
    ELSE [skip |-> FALSE, video_id |-> found[1].video_id, title |-> found[1].title]

\* Variant that treats quota exhaustion like any failed statistics fetch
stats_branch_no_break(v) ==
    IF v = None THEN "continue"
    ELSE IF "quota_exceeded" \in DOMAIN v[1] THEN "continue"
    ELSE "proceed"

\* lines 403-408: what the loop does with the result of get_video_stats
stats_branch(v) ==
    IF v = None THEN "continue"
    ELSE IF "quota_exceeded" \in DOMAIN v[1] THEN "break"
    ELSE "proceed"

\* lines 376-393: resolve or use the cache
Resolve ==
    /\ pc = "resolve"
    /\ \E resp \in SearchResps(GROUPS[idx].name), durs \in DurSeqs :
        \E r \in {IF should_search
                   THEN search_latest_mv(env, resp, durs, GROUPS[idx].name)
                   ELSE [exc |-> "", value |-> None, calls |-> <<>>]} :
        LET v == choose_video(r.value, StateGet(state, GROUPS[idx].id))
        IN  /\ calls' = calls \o Tagged(r.calls, idx)
            /\ IF r.exc # ""
                   THEN /\ Crash(r.exc, "search_latest_mv")
                        /\ UNCHANGED <<idx, latest, video_id, title, stats, outcome>>
               ELSE IF v.skip
                   THEN /\ NextGroup
                        /\ outcome' = [outcome EXCEPT ![idx] = "skipped"]
                        /\ UNCHANGED error
               ELSE /\ pc' = "stats"
                    /\ latest' = r.value
                    /\ video_id' = v.video_id
                    /\ title' = v.title
                    /\ UNCHANGED <<idx, stats, outcome, error>>
    /\ UNCHANGED <<env, file, state, should_search, metrics, inp, out>>

\* lines 402-412: the statistics fetch
FetchStats ==
    /\ pc = "stats"
    /\ \E resp \in StatsResps :
        \E r \in {get_video_stats(env, video_id, resp)} :
            /\ calls' = calls \o Tagged(r.calls, idx)
            /\ IF r.exc # ""
                   THEN /\ Crash(r.exc, "get_video_stats")
                        /\ UNCHANGED <<idx, latest, video_id, title, stats, outcome>>
               ELSE IF stats_branch(r.value) = "continue"
                   THEN /\ NextGroup
                        /\ outcome' = [outcome EXCEPT ![idx] =
                                           IF r.value = None THEN "stats_failed" ELSE "quota"]
                        /\ UNCHANGED error
               ELSE IF stats_branch(r.value) = "break"
                   THEN /\ pc' = "save"
                        /\ outcome' = [outcome EXCEPT ![idx] = "quota"]
                        /\ latest' = None
                        /\ video_id' = ""
                        /\ title' = <<>>
                        /\ UNCHANGED <<idx, stats, error>>
               ELSE /\ pc' = "post_abs"
                    /\ stats' = r.value[1]
                    /\ title' = IF title = TitleUnknown /\ title_given(r.value[1].title)
                                THEN r.value[1].title[1] ELSE title
                    /\ outcome' = [outcome EXCEPT ![idx] = "stats_ok"]
                    /\ UNCHANGED <<idx, latest, video_id, error>>
    /\ UNCHANGED <<env, file, state, should_search, metrics, inp, out>>

\* lines 414-420: the absolute metric
PostAbs ==
    /\ pc = "post_abs"
    /\ \E resp \in SinkResps :
        LET r == post_service_metric(env,
                     MetricName("viewcount", GROUPS[idx].id, video_id),
                     stats.viewCount, resp)
        IN  IF r.exc # ""
                THEN /\ Crash(r.exc, "post_service_metric")
                     /\ UNCHANGED <<metrics, outcome>>
            ELSE /\ pc' = "post_delta"
                 /\ metrics' = metrics \o r.value
                 /\ outcome' = [outcome EXCEPT ![idx] = "abs_posted"]
                 /\ UNCHANGED error
    /\ UNCHANGED <<env, file, state, should_search, idx, latest, video_id, title,
                   stats, calls, inp, out>>

\* lines 422-426: calc_view_delta, then the delta metric
PostDelta ==
    /\ pc = "post_delta"
    /\ \E resp \in SinkResps :
        LET c == calc_view_delta(state, GROUPS[idx].id, video_id, stats.viewCount,
                                 Some(title))
            r == post_service_metric(env,
                     MetricName("viewdelta", GROUPS[idx].id, video_id),
                     c.delta, resp)
        IN  /\ state' = c.state
            /\ IF r.exc # ""
                   THEN /\ Crash(r.exc, "post_service_metric")
                        /\ UNCHANGED <<idx, latest, video_id, title, stats, metrics, outcome>>
               ELSE /\ NextGroup
                    /\ metrics' = metrics \o r.value
                    /\ outcome' = [outcome EXCEPT ![idx] = "posted"]
                    /\ UNCHANGED error
    /\ UNCHANGED <<env, file, should_search, calls, inp, out>>

\* line 429: save_state
SaveState ==
    /\ pc = "save"
    /\ file' = save_state(state)
    /\ pc' = "done"
    /\ UNCHANGED <<env, state, should_search, idx, latest, video_id, title, stats,
                   calls, metrics, outcome, error, inp, out>>

Next == Start \/ Resolve \/ FetchStats \/ PostAbs \/ PostDelta \/ SaveState

Spec == Init /\ [][Next]_vars

TypeOK ==
    /\ pc \in {"start", "resolve", "stats", "post_abs", "post_delta", "save", "done", "crashed"}
    /\ idx \in GroupIdx

----------------------------------------------------------------------------
(* Function-level specification of calc_view_delta: the arguments are      *)
(* drawn in the initial state, the one action is the call.                 *)

\* entries of the state dict passed to calc_view_delta
DeltaEntries ==
    {[video_id |-> v, last_view |-> n] : v \in VideoIds, n \in 0..MaxView}
    \cup {[video_id |-> v, last_view |-> n, title |-> OldTitle] :
             v \in VideoIds, n \in 0..MaxView}

DeltaStates == UNION {[S -> DeltaEntries] : S \in SUBSET GroupIds}

NewTitle == Str(<<"n","e","w">>)

MainIdle ==
    /\ env = [YOUTUBE_API_KEY |-> Some("yt-key"), MACKEREL_API_KEY |-> Some("mk-key")]
    /\ file = None
    /\ state = EmptyState
    /\ should_search = FALSE
    /\ idx = 1
    /\ latest = None
    /\ video_id = ""
    /\ title = <<>>
    /\ stats = NoStats
    /\ calls = <<>>
    /\ metrics = <<>>
    /\ outcome = [i \in GroupIdx |-> "pending"]
    /\ error = NoError

InitDelta ==
    /\ pc = "call"
    /\ MainIdle
    /\ inp \in [state : DeltaStates, group_id : GroupIds, video_id : VideoIds,
                current_view : 0..MaxView, title : {None, Some(<<>>), Some(NewTitle)}]
    /\ out = <<>>

CallCalcViewDelta ==
    /\ pc = "call"
    /\ out' = Some(calc_view_delta(inp.state, inp.group_id, inp.video_id,
                                   inp.current_view, inp.title))
    /\ pc' = "returned"
    /\ UNCHANGED <<env, file, state, should_search, idx, latest, video_id, title,
                   stats, calls, metrics, outcome, error, inp>>

NextDelta == CallCalcViewDelta

SpecDelta == InitDelta /\ [][NextDelta]_vars

----------------------------------------------------------------------------
(* Function-level specification of the resolver: a candidate list, a group *)
(* name and the catalog's answers to the duration requests, in the order   *)
(* of the requests, are drawn in the initial state; the actions are the    *)
(* calls of filter_mv_items and search_latest_mv.                          *)

VidNames == <<"v1", "v2", "v3", "v4", "v5", "v6">>

\* titles of the candidates
TitlePool == {
    Str(<<"I","V","E"," ","M","V">>),
    Str(<<" ","i"," ","v"," ","e"," ","(","m","v",")"," ">>),
    Str(<<"I","V","E"," ","D","a","n","c","e"," ","M","V">>),
    Str(<<"I","V","E"," ","V","l","o","g">>),
    Str(<<"a","e","s","p","a"," ","O","f","f","i","c","i","a","l"," ","M","V">>) }

NamePool == { Str(<<"I","V","E">>), Str(<<"a","e"," ","s","p","a">>) }

\* answers to a contentDetails request: 45 seconds, the 60 seconds of the
\* limit, a value that is no duration, an empty duration, no item, an error
ShortDuration == Str(<<"P","T","4","5","S">>)
MinuteDuration == Str(<<"P","T","1","M">>)
BadDuration == Str(<<"3",":","1","2">>)

DurPool == { HttpOk(<<ShortDuration>>), HttpOk(<<MinuteDuration>>), HttpOk(<<BadDuration>>),
             HttpOk(<< <<>> >>), HttpOk(<<>>), HttpError(500) }

\* candidate lists: distinct videos, item i of a list has the video id VidNames[i]
ItemLists == { ts \in UNION { [1..n -> TitlePool] : n \in 0..MaxItems } :
                 \A i, j \in 1..Len(ts) : ts[i] = ts[j] => i = j }
ItemsOf(ts) == [i \in 1..Len(ts) |-> Item(VidNames[i], ts[i])]

\* the most duration requests a call can issue: one for the match, and one
\* for each candidate but the first that satisfies the relaxed rule (which
\* the three checks of the filter imply)
MaxRequests(ts, name) ==
    LET relaxed == {k \in 1..Len(ts) : relaxed_match(ts[k], name)}
    IN  IF relaxed = {} THEN 0 ELSE 1 + Cardinality(relaxed \ {1})

InitSearch ==
    /\ pc = "call"
    /\ MainIdle
    /\ \E ts \in ItemLists, name \in NamePool :
         \E d \in [1..MaxRequests(ts, name) -> DurPool] :
            inp = [items |-> ItemsOf(ts), group_name |-> name, durs |-> d]
    /\ out = <<>>

CallFilterMvItems ==
    /\ pc = "call"
    /\ out' = Some([fn |-> "filter_mv_items", exc |-> "",
                    value |-> filter_mv_items(inp.items, inp.group_name),
                    calls |-> <<>>])
    /\ pc' = "returned"
    /\ UNCHANGED <<env, file, state, should_search, idx, latest, video_id, title,
                   stats, calls, metrics, outcome, error, inp>>

CallSearchLatestMv ==
    /\ pc = "call"
    /\ \E r \in {search_latest_mv(env, HttpOk(inp.items), inp.durs, inp.group_name)} :
         out' = Some([fn |-> "search_latest_mv", exc |-> r.exc,
                      value |-> r.value, calls |-> r.calls])
    /\ pc' = "returned"
    /\ UNCHANGED <<env, file, state, should_search, idx, latest, video_id, title,
                   stats, calls, metrics, outcome, error, inp>>

NextSearch == CallFilterMvItems \/ CallSearchLatestMv

SpecSearch == InitSearch /\ [][NextSearch]_vars

----------------------------------------------------------------------------
(* Properties of calc_view_delta (SpecDelta) *)

Max(a, b) == IF a >= b THEN a ELSE b

DeltaReturned == pc = "returned" /\ out # <<>> /\ "delta" \in DOMAIN out[1]

SameVideoStored ==
    /\ inp.group_id \in DOMAIN inp.state
    /\ inp.state[inp.group_id].video_id = inp.video_id

\* C1: calc_view_delta returns max(0, current_view - stored.last_view) when
\* the state holds an entry for the group with the same video_id, and 0 in
\* every other case; the delta is never negative.
C1_DeltaValue ==
    DeltaReturned =>
        /\ out[1].delta >= 0
        /\ out[1].delta =
              IF SameVideoStored
              THEN Max(0, inp.current_view - inp.state[inp.group_id].last_view)
              ELSE 0

\* a call on the stored video with a view count above the stored one
C1_Witness ==
    /\ DeltaReturned
    /\ SameVideoStored
    /\ inp.current_view > inp.state[inp.group_id].last_view
    /\ out[1].delta > 0

\* the entry the claim expects calc_view_delta to leave for the group
ExpectedEntry ==
    IF inp.title # None /\ inp.title[1] # <<>>
        THEN [video_id |-> inp.video_id, last_view |-> inp.current_view,
              title |-> inp.title[1]]
    ELSE IF /\ inp.group_id \in DOMAIN inp.state
            /\ "title" \in DOMAIN inp.state[inp.group_id]
            /\ inp.state[inp.group_id].title # <<>>
        THEN [video_id |-> inp.video_id, last_view |-> inp.current_view,
              title |-> inp.state[inp.group_id].title]
    ELSE [video_id |-> inp.video_id, last_view |-> inp.current_view]

\* C2: after calc_view_delta, in the same-video and in the changeover or
\* first-observation case alike, the entry of the group is exactly video_id,
\* last_view = current_view and the title (the given one when a non-empty
\* title is passed, else the cached one, else none), and the entries of all
\* other groups are unchanged.
C2_EntryOverwritten ==
    DeltaReturned =>
        /\ DOMAIN out[1].state = DOMAIN inp.state \cup {inp.group_id}
        /\ out[1].state[inp.group_id] = ExpectedEntry
        /\ DOMAIN out[1].state[inp.group_id] = DOMAIN ExpectedEntry
        /\ \A g \in DOMAIN inp.state \ {inp.group_id} : out[1].state[g] = inp.state[g]

\* a changeover without a title argument keeps the cached title, next to another group
C2_Witness ==
    /\ DeltaReturned
    /\ inp.title = None
    /\ inp.group_id \in DOMAIN inp.state
    /\ inp.state[inp.group_id].video_id # inp.video_id
    /\ "title" \in DOMAIN inp.state[inp.group_id]
    /\ out[1].state[inp.group_id].title = OldTitle
    /\ DOMAIN inp.state \ {inp.group_id} # {}

----------------------------------------------------------------------------
(* Properties of the resolver (SpecSearch) *)

FilterReturned == pc = "returned" /\ out # <<>> /\ out[1].fn = "filter_mv_items"
SearchReturned == pc = "returned" /\ out # <<>> /\ out[1].fn = "search_latest_mv"

Min(S) == CHOOSE i \in S : \A j \in S : i <= j

AsVideo(item) == [video_id |-> item.videoId, title |-> item.title]

\* positions of the candidates that satisfy all three checks
Passing == {i \in 1..Len(inp.items) : passes_filter(inp.items[i].title, inp.group_name)}

\* C8: filter_mv_items returns the first candidate, in list order, that
\* satisfies all three checks, and none when no candidate does; a candidate
\* without the group name or with an exclusion keyword is never returned.
C8_FirstPassing ==
    FilterReturned =>
        LET p == Passing
        IN  /\ out[1].value = IF p = {} THEN None ELSE Some(AsVideo(inp.items[Min(p)]))
            /\ out[1].value # None =>
                  /\ has_group_key(out[1].value[1].title, inp.group_name)
                  /\ ~has_exclude_keyword(out[1].value[1].title)

\* the match is not the first item: an earlier candidate has the group name
\* and the MV suffix but carries an exclusion keyword
C8_Witness ==
    /\ FilterReturned
    /\ out[1].value # None
    /\ Min(Passing) > 1
    /\ \E j \in 1..(Min(Passing) - 1) :
          /\ has_group_key(inp.items[j].title, inp.group_name)
          /\ has_mv_suffix(inp.items[j].title)
          /\ has_exclude_keyword(inp.items[j].title)

\* a value that is certainly no duration: it does not match the period
\* pattern and does not start with "P" either
NotADuration(x) == period_match(x) = None /\ (x = <<>> \/ x[1] # 80)

\* what the catalog answered to the n-th duration request of the call
AnswerClass(n) ==
    LET r == inp.durs[n]
    IN  IF r.exc # "" \/ raise_for_status(r) THEN "failed"
        ELSE IF r.items = <<>> \/ r.items[1] = <<>> THEN "missing"
        ELSE IF is_shorts(r.items[1]) THEN "under60"
        ELSE IF NotADuration(r.items[1]) THEN "unparsable"
        ELSE "atleast60"

\* the tentative match exists and the duration fetched for it is under 60 seconds
TentativeShort == Passing # {} /\ AnswerClass(1) = "under60"

Relaxed(i) ==
    /\ Contains(RemoveSpaces(Lower(inp.items[i].title)),
                RemoveSpaces(Lower(inp.group_name)))
    /\ Contains(Lower(inp.items[i].title), Str(<<"m","v">>))

\* the candidates a rescan of items[1:] asks the duration of, and the number
\* of the request that asks for the i-th item (the first request is the one
\* for the tentative match)
Rescanned == {i \in 2..Len(inp.items) : Relaxed(i)}
RequestOf(i) == 1 + Cardinality({k \in Rescanned : k <= i})

\* the n-th smallest element of S
NthOf(S, n) == CHOOSE i \in S : Cardinality({k \in S : k <= i}) = n

\* the catalog gives one answer per video: the match, when the rescan comes
\* back to it, gets the answer it got at first
StableAnswers ==
    (Passing # {} /\ Min(Passing) \in Rescanned) =>
        inp.durs[RequestOf(Min(Passing))] = inp.durs[1]

\* C9 as stated: when the tentative match is under 60 seconds the result is
\* the first candidate after the rejected match that satisfies the relaxed
\* rule and lasts at least 60 seconds, and not-found when there is none.
\* (Stated for the calls that return, for a catalog that gives one answer
\* per video, and counting a duration that does not parse as not short, so
\* that only the position of the rescan is at stake.)
C9_NextAfterMatch ==
    (SearchReturned /\ out[1].exc = "" /\ TentativeShort /\ StableAnswers) =>
        LET after == {i \in (Min(Passing) + 1)..Len(inp.items) :
                         /\ Relaxed(i)
                         /\ AnswerClass(RequestOf(i)) \in {"atleast60", "unparsable"}}
        IN  out[1].value = IF after = {} THEN None
                           ELSE Some(AsVideo(inp.items[Min(after)]))

\* C9 amended: when the duration fetched for the tentative match is under 60
\* seconds, the rescan examines every candidate but the first of the list
\* (items[1:]) in order, the tentative match included when it is not the
\* first, requests the duration of each one that satisfies the relaxed rule,
\* and returns the first whose duration is present and not under 60 seconds
\* (an unparsable duration counts as not short); it reports not-found when
\* there is none, and a duration request that fails ends the call with that
\* error.  The duration last fetched for a returned video is never under 60
\* seconds.
C9_RescanFromSecond ==
    SearchReturned =>
        /\ TentativeShort =>
              LET stop == {i \in Rescanned :
                              AnswerClass(RequestOf(i))
                                  \in {"failed", "atleast60", "unparsable"}}
                  asked == IF stop = {} THEN Rescanned
                           ELSE {i \in Rescanned : i <= Min(stop)}
              IN  /\ out[1].calls =
                        <<Call("search", ""),
                          Call("duration", inp.items[Min(Passing)].videoId)>>
                        \o [n \in 1..Cardinality(asked) |->
                               Call("duration", inp.items[NthOf(asked, n)].videoId)]
                  /\ IF stop = {} THEN out[1].exc = "" /\ out[1].value = None
                     ELSE IF AnswerClass(RequestOf(Min(stop))) = "failed"
                          THEN out[1].exc # "" /\ out[1].value = None
                     ELSE /\ out[1].exc = ""
                          /\ out[1].value = Some(AsVideo(inp.items[Min(stop)]))
        /\ out[1].value # None =>
              /\ out[1].calls[Len(out[1].calls)] =
                     Call("duration", out[1].value[1].video_id)
              /\ AnswerClass(Len(out[1].calls) - 1) # "under60"

\* the rescan returns a candidate that precedes the rejected match in the list
C9_Witness ==
    /\ SearchReturned
    /\ TentativeShort
    /\ out[1].value # None
    /\ \E i \in 2..(Min(Passing) - 1) : out[1].value[1].video_id = inp.items[i].videoId

\* C10 as stated: whenever the duration of the tentative match cannot be
\* obtained (the request fails, returns no item, or returns an unparsable
\* value), search_latest_mv returns the tentative match unchanged, without
\* a rescan and without failing.
C10_FailOpen ==
    (SearchReturned /\ Passing # {}) =>
        LET m == inp.items[Min(Passing)]
        IN  AnswerClass(1) \in {"failed", "missing", "unparsable"} =>
               /\ out[1].exc = ""
               /\ out[1].value = Some(AsVideo(m))
               /\ out[1].calls = <<Call("search", ""), Call("duration", m.videoId)>>

----------------------------------------------------------------------------
(* Properties of a run of main() (Spec) *)

GroupId(j) == GROUPS[j].id
MetricsOf(j) == SelectSeq(metrics, LAMBDA m : m.name.group_id = GroupId(j))
CallsOf(j) == SelectSeq(calls, LAMBDA c : c.g = j)
StatsCallsOf(j) == SelectSeq(calls, LAMBDA c : c.g = j /\ c.op = "stats")

\* the state dict as load_state returned it; state.json is rewritten only by save_state
Loaded == load_state(file)
RunEnded == pc \in {"done", "crashed"}

\* C3: if the statistics fetch for the k-th group reports quota exhaustion,
\* no later group is processed (no catalog call, no metric), group k gets
\* no metric and its state entry is unchanged, and the run goes on to
\* save_state, which writes the state holding the updates of the groups
\* before k.
C3_QuotaAbort ==
    /\ [](\A k \in GroupIdx : outcome[k] = "quota" =>
            /\ pc \in {"save", "done"}
            /\ idx = k
            /\ \A j \in GroupIdx : j > k =>
                  outcome[j] = "pending" /\ CallsOf(j) = <<>> /\ MetricsOf(j) = <<>>
            /\ MetricsOf(k) = <<>>
            /\ pc = "save" => StateGet(state, GroupId(k)) = StateGet(Loaded, GroupId(k))
            /\ pc = "done" => file = Some(state)
            /\ \A j \in GroupIdx : (j < k /\ outcome[j] = "posted") =>
                  /\ GroupId(j) \in DOMAIN state
                  /\ state[GroupId(j)].last_view = MetricsOf(j)[1].value
                  /\ state[GroupId(j)].video_id = MetricsOf(j)[1].name.video_id)
    /\ [][pc = "save" => (pc' = "done" /\ state' = state /\ file' = Some(state))]_vars

\* the run was cut at a group after a group that posted, and state.json was written
C3_Witness ==
    /\ pc = "done"
    /\ \E k \in GroupIdx :
          /\ outcome[k] = "quota"
          /\ \E j \in GroupIdx : j < k /\ outcome[j] = "posted"
          /\ file = Some(state)

\* C5: on a non-search run the resolver is not invoked; the resolved video
\* is used when the resolver returns one; otherwise the cached video_id and
\* title are used when the group has a cached entry; otherwise the group is
\* skipped without statistics fetch, metric or state entry, and the loop
\* goes on with the next group.
C5_VideoChoice ==
    /\ ~should_search =>
          /\ latest = None
          /\ \A n \in 1..Len(calls) : calls[n].op = "stats"
    /\ pc \in {"stats", "post_abs", "post_delta"} =>
          IF latest # None
          THEN video_id = latest[1].video_id /\ title = latest[1].title
          ELSE /\ GroupId(idx) \in DOMAIN state
               /\ video_id = state[GroupId(idx)].video_id
               /\ "title" \in DOMAIN state[GroupId(idx)] =>
                      title = state[GroupId(idx)].title
    /\ \A j \in GroupIdx :
          /\ outcome[j] = "skipped" =>
                /\ StatsCallsOf(j) = <<>>
                /\ MetricsOf(j) = <<>>
                /\ GroupId(j) \notin DOMAIN state
                /\ idx > j \/ (j = MaxGroups /\ pc \in {"save", "done"})
          /\ (pc # "done" /\ GroupId(j) \in DOMAIN Loaded) => outcome[j] # "skipped"

\* a search run whose resolver found nothing goes on with the cached video
C5_Witness ==
    /\ pc = "stats"
    /\ should_search
    /\ latest = None
    /\ \E n \in 1..Len(calls) : calls[n].op = "search" /\ calls[n].g = idx
    /\ video_id = state[GroupId(idx)].video_id

\* the two metrics of group j: the absolute count, then the delta, under one suffix
TwoMetrics(j) ==
    /\ Len(MetricsOf(j)) = 2
    /\ MetricsOf(j)[1].name.kind = "viewcount"
    /\ MetricsOf(j)[2].name.kind = "viewdelta"
    /\ MetricsOf(j)[1].name.group_id = GroupId(j)
    /\ MetricsOf(j)[2].name.group_id = GroupId(j)
    /\ MetricsOf(j)[1].name.video_id = MetricsOf(j)[2].name.video_id
    /\ GroupId(j) \in DOMAIN state
    /\ state[GroupId(j)].video_id = MetricsOf(j)[1].name.video_id
    /\ state[GroupId(j)].last_view = MetricsOf(j)[1].value

CredentialsSet == Truthy(env.YOUTUBE_API_KEY) /\ Truthy(env.MACKEREL_API_KEY)

StatsSucceeded(j) == outcome[j] \in {"stats_ok", "abs_posted", "posted"}

\* C6 as stated: at the end of a run every group whose statistics fetch
\* succeeded has exactly its two metrics, and every other group has none
\* (stated for the runs that have both credentials).
C6_TwoMetricsPerStats ==
    (RunEnded /\ CredentialsSet) =>
        \A j \in GroupIdx :
            IF StatsSucceeded(j) THEN TwoMetrics(j) ELSE MetricsOf(j) = <<>>

\* what the metrics of group j are at each stage of its iteration
MetricsAsPosted(j) ==
    /\ outcome[j] = "posted" =>
          /\ TwoMetrics(j)
          /\ pc # "done" =>
                MetricsOf(j)[2].value =
                    IF /\ GroupId(j) \in DOMAIN Loaded
                       /\ Loaded[GroupId(j)].video_id = MetricsOf(j)[1].name.video_id
                    THEN Max(0, MetricsOf(j)[1].value - Loaded[GroupId(j)].last_view)
                    ELSE 0
    /\ outcome[j] \in {"pending", "skipped", "stats_failed", "quota"} =>
          MetricsOf(j) = <<>>
    /\ outcome[j] = "stats_ok" =>
          /\ MetricsOf(j) = <<>>
          /\ idx = j
          /\ \A i \in GroupIdx : i > j => outcome[i] = "pending"
          /\ pc \in {"post_abs", "crashed"}
          /\ pc = "crashed" => error.in = "post_service_metric"
    /\ outcome[j] = "abs_posted" =>
          /\ Len(MetricsOf(j)) = 1
          /\ MetricsOf(j)[1].name = [kind |-> "viewcount", group_id |-> GroupId(j),
                                     video_id |-> video_id]
          /\ MetricsOf(j)[1].value = stats.viewCount
          /\ idx = j
          /\ \A i \in GroupIdx : i > j => outcome[i] = "pending"
          /\ pc \in {"post_delta", "crashed"}
          /\ pc = "crashed" => error.in = "post_service_metric"
    /\ (pc = "done" /\ StatsSucceeded(j)) => outcome[j] = "posted"

\* C6 amended: a group whose statistics fetch and whose two metric posts
\* succeed has exactly two metrics, the absolute count first and the delta
\* second, with one <group_id>_<video_id> suffix, the video being the one
\* the state holds for the group with last_view equal to the absolute value;
\* the delta is the one computed against the loaded entry.  A group that is
\* skipped, whose statistics fetch fails or at which the run aborts has no
\* metric.  A metric post that fails ends the run with the error raised out
\* of post_service_metric: the group then has no metric (absolute post) or
\* only the absolute one (delta post), no later group is processed and the
\* run takes no further step (save_state is not reached).
C6_TwoMetricsPerPost ==
    /\ [][pc # "crashed"]_vars
    /\ [](\A j \in GroupIdx : MetricsAsPosted(j))

\* a group posted a positive delta for its cached video
C6_Witness ==
    \E j \in GroupIdx :
        /\ outcome[j] = "posted"
        /\ Len(MetricsOf(j)) = 2
        /\ MetricsOf(j)[2].value > 0
        /\ MetricsOf(j)[1].value = state[GroupId(j)].last_view

CatalogFailure ==
    /\ error.in \in {"search_latest_mv", "get_video_stats"}
    /\ error.exc \in {"HTTPError", "Timeout"}

\* C4 as stated: a catalog failure other than quota exhaustion (failed
\* search, failed duration fetch, failed or timed-out statistics fetch)
\* never ends the run: the group is skipped with its entry unchanged, the
\* later groups are processed and save_state is reached (stated for the
\* runs that have both credentials).
C4_FailureSkipsGroup ==
    CredentialsSet =>
    /\ ~(pc = "crashed" /\ CatalogFailure)
    /\ \A j \in GroupIdx : outcome[j] = "stats_failed" =>
          /\ MetricsOf(j) = <<>>
          /\ pc # "done" => StateGet(state, GroupId(j)) = StateGet(Loaded, GroupId(j))
          /\ idx > j \/ (j = MaxGroups /\ pc \in {"save", "done"})

\* C7 as stated: when a credential is absent from the environment the run
\* fails with a configuration error before any group is processed: no
\* catalog request is issued, no metric is posted, and the run does not
\* complete.
C7_FailFast ==
    (env.YOUTUBE_API_KEY = None \/ env.MACKEREL_API_KEY = None) =>
        /\ calls = <<>>
        /\ metrics = <<>>
        /\ pc # "done"
        /\ pc = "crashed" => error.exc = "RuntimeError"

====
